---- MODULE Spec2Model ----
(***************************************************************************)
(* codeSmol (src/codeSmol.ts): the REPL of main, the provider adapter of   *)
(* callApi, the decoding of a provider response and the tool registry.     *)
(*                                                                         *)
(* Strings the program builds by concatenation or template literals are    *)
(* sequences of tokens: `error: ${m}` is <<"error: ">> \o m, so a prefix   *)
(* test and String.includes are tests on tokens.  A JSON object is a       *)
(* sequence of members [k, t, v] (key, JSON type, literal); its text is a  *)
(* sequence of tokens.  A field a JavaScript object does not have holds    *)
(* Undefined, JSON null is Null.  Blocks and wire objects are typed as the *)
(* interfaces Message and ContentBlock declare them.                       *)
(***************************************************************************)
EXTENDS Integers, Sequences, FiniteSets, TLC

\* bounds of the exploration
MaxInputs == 3
MaxRequests == 2

VARIABLES
  provider,       \* config.provider, fixed for the run
  pc,             \* where main is suspended or looping
  messages,       \* the conversation history
  userInput,      \* the last line read, trimmed
  wireBody,       \* the messages of the last request body sent
  contentBlocks,  \* the decoded blocks of the response in hand
  toolResults,    \* the tool_result blocks built for that response
  idx,            \* position of the for-of loop over contentBlocks
  reported,       \* the message of the last error printed by the catch
  nInputs,        \* lines read so far
  nRequests,      \* model requests issued so far
  turnRequests,   \* model requests issued since the last user message
  turnStart,      \* history when the last user line was read
  atRequest,      \* history when the last model request was issued
  lastTools,      \* tool_use count of the last decoded response
  invokeLog,      \* positions of the blocks whose tool was started, in order
  returnLog,      \* positions of the blocks whose tool has returned, in order
  lastCall,       \* name, arguments and environment of the last tool call
  lastResult,     \* the string runTool returned last
  caught,         \* the message of the last error the catch received
  nAnswered,      \* model requests that have come back, with a response or an error
  lastEvent       \* what the last step did

vars == <<provider, pc, messages, userInput, wireBody, contentBlocks,
          toolResults, idx, reported, nInputs, nRequests, turnRequests,
          turnStart, atRequest, lastTools, invokeLog, returnLog, lastCall,
          lastResult, caught, nAnswered, lastEvent>>

----------------------------------------------------------------------------
\* JSON.stringify / JSON.parse on an object of scalar members

Member(k, t, v) == [k |-> k, t |-> t, v |-> v]

RECURSIVE MemberTokens(_)
MemberTokens(input) ==
  IF input = <<>> THEN <<>>
  ELSE <<input[1].k, ":", input[1].t, input[1].v>>
       \o (IF Len(input) > 1 THEN <<",">> \o MemberTokens(Tail(input)) ELSE <<>>)

JsonStringify(input) == <<"{">> \o MemberTokens(input) \o <<"}">>

JsonTypes == {"string", "number", "boolean"}

RECURSIVE ParseMembers(_)
ParseMembers(toks) ==
  IF Len(toks) < 4 \/ toks[2] # ":" \/ toks[3] \notin JsonTypes
  THEN [ok |-> FALSE, value |-> <<>>]
  ELSE LET m == Member(toks[1], toks[3], toks[4]) IN
       IF Len(toks) = 4 THEN [ok |-> TRUE, value |-> <<m>>]
       ELSE IF toks[5] # "," THEN [ok |-> FALSE, value |-> <<>>]
       ELSE LET rest == ParseMembers(SubSeq(toks, 6, Len(toks))) IN
            [ok |-> rest.ok, value |-> IF rest.ok THEN <<m>> \o rest.value ELSE <<>>]

JsonParse(toks) ==
  IF Len(toks) < 2 \/ toks[1] # "{" \/ toks[Len(toks)] # "}"
  THEN [ok |-> FALSE, value |-> <<>>]
  ELSE IF Len(toks) = 2 THEN [ok |-> TRUE, value |-> <<>>]
  ELSE ParseMembers(SubSeq(toks, 2, Len(toks) - 1))

\* the message of the SyntaxError JSON.parse throws: V8 quotes the source
\* text in it from version 11 on, and names only a position before that
ParseErrorMessages(toks) ==
  { <<"Unexpected token in JSON at position 0">>,
    <<"Unexpected token, ">> \o toks \o <<" is not valid JSON">> }

----------------------------------------------------------------------------
\* The tool registry.  A handler either returns a string or throws an Error
\* with a message; env is the part of the file system and of the shell the
\* invocation meets.

Return(s) == [throws |-> FALSE, value |-> s]
Throw(m) == [throws |-> TRUE, value |-> m]

Has(args, k) == \E i \in 1..Len(args) : args[i].k = k
TypeOfArg(args, k) ==
  IF Has(args, k) THEN (CHOOSE m \in {args[i] : i \in 1..Len(args)} : m.k = k).t
  ELSE "undefined"
ValueOfArg(args, k) ==
  IF Has(args, k) THEN (CHOOSE m \in {args[i] : i \in 1..Len(args)} : m.k = k).v
  ELSE "undefined"
IsString(args, k) == TypeOfArg(args, k) = "string"

\* patterns new RegExp rejects with a SyntaxError
InvalidRegex(p) == p \in {"(", "["}

readFile(args, env) ==
  IF ~IsString(args, "path") THEN Throw(<<"The \"path\" argument must be of type string">>)
  ELSE IF ~env.fileExists THEN Throw(<<"ENOENT: no such file or directory, open ", ValueOfArg(args, "path")>>)
  ELSE IF TypeOfArg(args, "offset") = "string" THEN Return(<<>>)
  ELSE Return(<<"   1| ", "line">>)

writeFile(args, env) ==
  IF ~IsString(args, "path") \/ ~IsString(args, "content")
  THEN Throw(<<"The argument must be of type string">>)
  ELSE Return(<<"ok">>)

editFile(args, env) ==
  IF ~IsString(args, "path") THEN Throw(<<"The \"path\" argument must be of type string">>)
  ELSE IF ~env.fileExists THEN Throw(<<"ENOENT: no such file or directory, open ", ValueOfArg(args, "path")>>)
  ELSE IF env.oldCount = 0 \/ ~IsString(args, "old") THEN Return(<<"error: ", "old_string not found">>)
  ELSE IF ValueOfArg(args, "all") # "true" /\ env.oldCount > 1
  THEN Return(<<"error: ", "old_string appears ", "2", " times, must be unique (use all=true)">>)
  ELSE Return(<<"ok">>)

globFiles(args, env) ==
  IF ~IsString(args, "pat") THEN Throw(<<"The \"path\" argument must be of type string">>)
  ELSE IF env.found THEN Return(<<"a.ts", "\n", "b.ts">>)
  ELSE Return(<<"none">>)

grepFiles(args, env) ==
  IF InvalidRegex(ValueOfArg(args, "pat"))
  THEN Throw(<<"Invalid regular expression: /", ValueOfArg(args, "pat"), "/">>)
  ELSE IF env.found THEN Return(<<"a.ts", ":", "1", ":", "line">>)
  ELSE Return(<<"none">>)

runBash(args, env) ==
  IF ~IsString(args, "cmd") THEN Throw(<<"The \"command\" argument must be of type string">>)
  ELSE IF env.spawnFails THEN Return(<<"error: ", "spawn /bin/sh ENOENT">>)
  ELSE IF env.exitCode # 0
  THEN Return(IF env.found THEN <<"ls: cannot access">> ELSE <<"(empty)">>)
  ELSE Return(IF env.found THEN <<"a.ts", "\n", "b.ts">> ELSE <<"(empty)">>)

TOOLS == {"read", "write", "edit", "glob", "grep", "bash"}

ToolFn(name, args, env) ==
  CASE name = "read" -> readFile(args, env)
    [] name = "write" -> writeFile(args, env)
    [] name = "edit" -> editFile(args, env)
    [] name = "glob" -> globFiles(args, env)
    [] name = "grep" -> grepFiles(args, env)
    [] name = "bash" -> runBash(args, env)
    [] OTHER -> Throw(<<"Cannot read properties of undefined (reading 'fn')">>)

runTool_unknown(name, args, env) ==
  LET r == ToolFn(name, args, env) IN
  IF name \notin TOOLS THEN <<"unknown tool ", name>>
  ELSE IF r.throws THEN <<"error: ">> \o r.value ELSE r.value

runTool_bare(name, args, env) == ToolFn(name, args, env).value

runTool(name, args, env) ==
  LET r == ToolFn(name, args, env) IN
  IF r.throws THEN <<"error: ">> \o r.value ELSE r.value

\* String.startsWith('error:') on a result
IsErrorResult(s) == Len(s) > 0 /\ s[1] = "error: "

\* what went wrong in an invocation, if anything
HandlerThrows(name, args, env) == ToolFn(name, args, env).throws
NonZeroExit(name, args, env) ==
  name = "bash" /\ IsString(args, "cmd") /\ ~env.spawnFails /\ env.exitCode # 0

----------------------------------------------------------------------------
\* Messages and content blocks (interfaces Message and ContentBlock).  A
\* record carries every field; the fields a block does not have are empty.

TextBlock(t) ==
  [type |-> "text", text |-> t, id |-> "", name |-> "", input |-> <<>>,
   tool_use_id |-> "", content |-> <<>>]
ToolUse(id, name, input) ==
  [type |-> "tool_use", text |-> "", id |-> id, name |-> name, input |-> input,
   tool_use_id |-> "", content |-> <<>>]
ToolResult(id, result) ==
  [type |-> "tool_result", text |-> "", id |-> "", name |-> "", input |-> <<>>,
   tool_use_id |-> id, content |-> result]

\* content is a string (isArray FALSE, text) or an array of blocks
TextMessage(role, t) == [role |-> role, isArray |-> FALSE, text |-> t, content |-> <<>>]
ArrayMessage(role, blocks) == [role |-> role, isArray |-> TRUE, text |-> "", content |-> blocks]

RECURSIVE SelectBlocks(_, _)
SelectBlocks(blocks, type) ==
  IF blocks = <<>> THEN <<>>
  ELSE (IF blocks[1].type = type THEN <<blocks[1]>> ELSE <<>>)
       \o SelectBlocks(Tail(blocks), type)

ToolUses(blocks) == SelectBlocks(blocks, "tool_use")

RECURSIVE Ids(_)
Ids(blocks) ==
  IF blocks = <<>> THEN <<>> ELSE <<blocks[1].id>> \o Ids(Tail(blocks))

RECURSIVE ToolUseIds(_)
ToolUseIds(blocks) ==
  IF blocks = <<>> THEN <<>> ELSE <<blocks[1].tool_use_id>> \o ToolUseIds(Tail(blocks))

----------------------------------------------------------------------------
\* callApi: the request body, for the two families

systemPrompt == "Concise coding assistant. cwd: /"

\* JSON.stringify of an array of tool_result blocks
RECURSIVE StringifyResults(_)
StringifyResults(blocks) ==
  IF blocks = <<>> THEN <<>>
  ELSE <<"{", "type", ":", blocks[1].type, ",", "tool_use_id", ":",
         blocks[1].tool_use_id, ",", "content", ":">> \o blocks[1].content \o <<"}">>
       \o (IF Len(blocks) > 1 THEN <<",">> ELSE <<>>)
       \o StringifyResults(Tail(blocks))

\* a chat message of the chat-with-tool-calls family: content <<>> is null,
\* hasToolCalls tells whether the tool_calls field is there
ChatMessage(role, content, hasToolCalls, toolCalls, toolCallId) ==
  [role |-> role, content |-> content, hasToolCalls |-> hasToolCalls,
   tool_calls |-> toolCalls, tool_call_id |-> toolCallId]

ToolCall(id, name, arguments) ==
  [id |-> id, type |-> "function",
   function |-> [name |-> name, arguments |-> arguments]]

EncodeToolCalls_firstOnly(toolUses) ==
  IF toolUses = <<>> THEN <<>>
  ELSE <<ToolCall(toolUses[1].id, toolUses[1].name, JsonStringify(toolUses[1].input))>>

RECURSIVE EncodeToolCalls(_)
EncodeToolCalls(toolUses) ==
  IF toolUses = <<>> THEN <<>>
  ELSE <<ToolCall(toolUses[1].id, toolUses[1].name, JsonStringify(toolUses[1].input))>>
       \o EncodeToolCalls(Tail(toolUses))

EncodeAssistant(msg) ==
  IF msg.isArray
  THEN LET texts == SelectBlocks(msg.content, "text")
           toolUses == ToolUses(msg.content)
           textContent == IF texts # <<>> /\ texts[1].text # "" THEN <<texts[1].text>> ELSE <<>>
       IN ChatMessage("assistant", textContent, toolUses # <<>>, EncodeToolCalls(toolUses), "")
  ELSE ChatMessage("assistant", <<msg.text>>, FALSE, <<>>, "")

EncodeUser_lastId(msg) ==
  IF msg.isArray
  THEN ChatMessage("tool", <<"[">> \o StringifyResults(msg.content) \o <<"]">>, FALSE, <<>>,
                   IF msg.content # <<>> THEN msg.content[Len(msg.content)].tool_use_id
                   ELSE "unknown")
  ELSE ChatMessage("user", <<msg.text>>, FALSE, <<>>, "")

EncodeUser(msg) ==
  IF msg.isArray
  THEN ChatMessage("tool", <<"[">> \o StringifyResults(msg.content) \o <<"]">>, FALSE, <<>>,
                   IF msg.content # <<>> /\ msg.content[1].tool_use_id # ""
                   THEN msg.content[1].tool_use_id ELSE "unknown")
  ELSE ChatMessage("user", <<msg.text>>, FALSE, <<>>, "")

RECURSIVE EncodeMessages(_)
EncodeMessages(msgs) ==
  IF msgs = <<>> THEN <<>>
  ELSE (IF msgs[1].role = "user" THEN <<EncodeUser(msgs[1])>>
        ELSE IF msgs[1].role = "assistant" THEN <<EncodeAssistant(msgs[1])>>
        ELSE <<>>)
       \o EncodeMessages(Tail(msgs))

IsContentBlockFamily(p) == p \in {"anthropic", "openrouter"}

RequestBody(p, msgs) ==
  IF IsContentBlockFamily(p)
  THEN [family |-> "content-block", max_tokens |-> 1600, system |-> <<systemPrompt>>,
        messages |-> msgs]
  ELSE [family |-> "chat", max_tokens |-> 1600, system |-> <<>>,
        messages |-> <<ChatMessage("system", <<systemPrompt>>, FALSE, <<>>, "")>>
                     \o EncodeMessages(msgs)]

\* the Error callApi throws on a response that is not ok
ApiError(status, body) == <<"API error: ", status, " - ">> \o body

----------------------------------------------------------------------------
\* main: decoding a response into content blocks

Decoded(blocks) == [ok |-> TRUE, blocks |-> blocks, message |-> <<>>]
DecodeFailed(m) == [ok |-> FALSE, blocks |-> <<>>, message |-> m]

\* the tool_use blocks of a tool-call list; the first payload that does not
\* parse throws out of the loop
RECURSIVE DecodeToolCalls(_)
DecodeToolCalls(calls) ==
  IF calls = <<>> THEN {Decoded(<<>>)}
  ELSE LET parsed == JsonParse(calls[1].function.arguments) IN
       IF ~parsed.ok
       THEN {DecodeFailed(m) : m \in ParseErrorMessages(calls[1].function.arguments)}
       ELSE {IF rest.ok
             THEN Decoded(<<ToolUse(calls[1].id, calls[1].function.name, parsed.value)>>
                          \o rest.blocks)
             ELSE rest : rest \in DecodeToolCalls(Tail(calls))}

DecodeChat(response) ==
  IF response.choices = <<>> THEN {Decoded(<<>>)}
  ELSE LET message == response.choices[1].message
           text == IF message.content # <<>> /\ message.content[1] # ""
                   THEN <<TextBlock(message.content[1])>> ELSE <<>>
       IN IF message.hasToolCalls
          THEN {IF d.ok THEN Decoded(text \o d.blocks) ELSE d :
                  d \in DecodeToolCalls(message.tool_calls)}
          ELSE {Decoded(text)}

DecodeContentBlock(response) ==
  {Decoded(IF response.hasContent THEN response.content ELSE <<>>)}

Decode(p, response) ==
  IF IsContentBlockFamily(p) THEN DecodeContentBlock(response) ELSE DecodeChat(response)

----------------------------------------------------------------------------
\* What the outside world can answer: lines of the user, provider
\* responses, failures of the transport.

Lines == {"", "/q", "exit", "/c", "list files"}

Providers == {"anthropic", "groq"}

InGlob == <<Member("pat", "string", "*.ts")>>
InBash == <<Member("cmd", "string", "ls")>>
InNone == <<>>
InRead == <<Member("path", "string", "a.ts"), Member("offset", "string", "x")>>
InGrep == <<Member("pat", "string", "(")>>
InEdit == <<Member("path", "string", "a.ts"), Member("old", "string", "x"),
            Member("new", "string", "y")>>
InWrite == <<Member("path", "string", "a.ts"), Member("content", "number", "7")>>

ContentBlockResponse(hasContent, content) == [hasContent |-> hasContent, content |-> content]

ContentBlockResponses ==
  {ContentBlockResponse(FALSE, <<>>),
   ContentBlockResponse(TRUE, <<TextBlock("done")>>),
   ContentBlockResponse(TRUE, <<ToolUse("t1", "glob", InGlob)>>),
   ContentBlockResponse(TRUE, <<TextBlock("look"), ToolUse("t1", "frobnicate", InNone),
                                ToolUse("t2", "bash", InBash)>>),
   ContentBlockResponse(TRUE, <<ToolUse("t1", "read", InRead), TextBlock("next"),
                                ToolUse("t2", "grep", InGrep)>>),
   ContentBlockResponse(TRUE, <<ToolUse("t1", "edit", InEdit), ToolUse("t2", "write", InWrite)>>)}

ChatResponse(choices) == [choices |-> choices]
Choice(message) == [message |-> message]

\* argument payloads that are not JSON
BadPayloads == {<<"{", "pat">>, <<"SIGINT">>}

ChatResponses ==
  {ChatResponse(<<>>),
   ChatResponse(<<Choice(ChatMessage("assistant", <<"">>, TRUE, <<>>, ""))>>),
   ChatResponse(<<Choice(ChatMessage("assistant", <<"done">>, FALSE, <<>>, ""))>>),
   ChatResponse(<<Choice(ChatMessage("assistant", <<>>, TRUE,
                    <<ToolCall("t1", "glob", JsonStringify(InGlob))>>, ""))>>),
   ChatResponse(<<Choice(ChatMessage("assistant", <<"look">>, TRUE,
                    <<ToolCall("t1", "frobnicate", JsonStringify(InNone)),
                      ToolCall("t2", "bash", JsonStringify(InBash))>>, ""))>>),
   ChatResponse(<<Choice(ChatMessage("assistant", <<>>, TRUE,
                    <<ToolCall("t1", "read", JsonStringify(InRead)),
                      ToolCall("t2", "grep", JsonStringify(InGrep))>>, ""))>>),
   ChatResponse(<<Choice(ChatMessage("assistant", <<"fix">>, TRUE,
                    <<ToolCall("t1", "edit", JsonStringify(InEdit)),
                      ToolCall("t2", "write", JsonStringify(InWrite))>>, ""))>>)}
  \cup {ChatResponse(<<Choice(ChatMessage("assistant", <<>>, TRUE,
                         <<ToolCall("t1", "glob", JsonStringify(InGlob)),
                           ToolCall("t2", "grep", bad)>>, ""))>>) :
          bad \in BadPayloads}

Responses(p) == IF IsContentBlockFamily(p) THEN ContentBlockResponses ELSE ChatResponses

\* bodies of responses whose status is not ok
ErrorBodies == {<<"Internal Server Error">>, <<"upstream worker got ", "SIGINT">>}

\* messages of a rejected fetch and of a body response.json() cannot parse
FetchErrors == {<<"fetch failed">>} \cup ParseErrorMessages(<<"<html>">>)

ScriptedEnvs ==
  {[fileExists |-> TRUE, oldCount |-> 1, found |-> TRUE, exitCode |-> 0, spawnFails |-> FALSE],
   [fileExists |-> FALSE, oldCount |-> 0, found |-> FALSE, exitCode |-> 1, spawnFails |-> FALSE],
   [fileExists |-> TRUE, oldCount |-> 2, found |-> TRUE, exitCode |-> 0, spawnFails |-> TRUE]}

\* String.includes on a message
Includes(m, word) == \E i \in 1..Len(m) : m[i] = word

----------------------------------------------------------------------------
\* main

NoCall == [name |-> "", args |-> <<>>, env |-> CHOOSE e \in ScriptedEnvs : e.exitCode = 0 /\ ~e.spawnFails]

Init ==
  /\ provider \in Providers
  /\ pc = "AwaitingUserInput"
  /\ messages = <<>>
  /\ userInput = ""
  /\ wireBody = RequestBody(provider, <<>>)
  /\ contentBlocks = <<>>
  /\ toolResults = <<>>
  /\ idx = 1
  /\ reported = <<>>
  /\ nInputs = 0
  /\ nRequests = 0
  /\ turnRequests = 0
  /\ turnStart = <<>>
  /\ atRequest = <<>>
  /\ lastTools = 0
  /\ invokeLog = <<>>
  /\ returnLog = <<>>
  /\ lastCall = NoCall
  /\ lastResult = <<>>
  /\ caught = <<>>
  /\ nAnswered = 0
  /\ lastEvent = "start"

Push_front(msgs, m) == <<m>> \o msgs

Push_overwrite(msgs, m) ==
  IF msgs = <<>> THEN <<m>> ELSE [msgs EXCEPT ![Len(msgs)] = m]

\* messages.push(m)
Push(msgs, m) == Append(msgs, m)

\* await callApi(messages, ...): the body is built and the request sent
IssueRequest(msgs) ==
  /\ wireBody' = RequestBody(provider, msgs)
  /\ atRequest' = msgs
  /\ nRequests' = nRequests + 1
  /\ pc' = "RequestingModel"

\* the test the catch makes before it reports
IsInterrupt(m) == Includes(m, "SIGINT")

Catch_retry(m) ==
  /\ caught' = m
  /\ reported' = m
  /\ pc' = "RequestingModel"

\* the catch of the outer loop
Catch(m) ==
  /\ caught' = m
  /\ IF IsInterrupt(m)
     THEN pc' = "Exited" /\ UNCHANGED reported
     ELSE pc' = "AwaitingUserInput" /\ reported' = m

ReadLine(line) ==
  /\ pc = "AwaitingUserInput"
  /\ nInputs < MaxInputs
  /\ nInputs' = nInputs + 1
  /\ userInput' = line
  /\ turnStart' = messages

EmptyInput ==
  /\ ReadLine("")
  /\ lastEvent' = "empty"
  /\ UNCHANGED <<provider, nAnswered, pc, messages, wireBody, contentBlocks, toolResults, idx,
                 reported, nRequests, turnRequests, atRequest, lastTools,
                 invokeLog, returnLog, lastCall, lastResult, caught>>

Quit ==
  /\ \E line \in {"/q", "exit"} : ReadLine(line)
  /\ pc' = "Exited"
  /\ lastEvent' = "quit"
  /\ UNCHANGED <<provider, nAnswered, messages, wireBody, contentBlocks, toolResults, idx,
                 reported, nRequests, turnRequests, atRequest, lastTools,
                 invokeLog, returnLog, lastCall, lastResult, caught>>

Cleared_keepFirst(msgs) == IF msgs = <<>> THEN <<>> ELSE <<msgs[1]>>

\* messages.length = 0
Cleared(msgs) == <<>>

Clear ==
  /\ ReadLine("/c")
  /\ messages' = Cleared(messages)
  /\ lastEvent' = "clear"
  /\ UNCHANGED <<provider, nAnswered, pc, wireBody, contentBlocks, toolResults, idx,
                 reported, nRequests, turnRequests, atRequest, lastTools,
                 invokeLog, returnLog, lastCall, lastResult, caught>>

UserMessage ==
  /\ \E line \in Lines \ {"", "/q", "exit", "/c"} : ReadLine(line)
  /\ nRequests < MaxRequests
  /\ messages' = Push(messages, TextMessage("user", userInput'))
  /\ IssueRequest(messages')
  /\ turnRequests' = 1
  /\ lastEvent' = "user"
  /\ UNCHANGED <<provider, nAnswered, contentBlocks, toolResults, idx, reported,
                 lastTools, invokeLog, returnLog, lastCall, lastResult, caught>>

\* callApi throws on a response whose status is not ok
HttpError ==
  /\ nAnswered' = nAnswered + 1
  /\ pc = "RequestingModel"
  /\ \E body \in ErrorBodies : Catch(ApiError("500", body))
  /\ lastEvent' = "http error"
  /\ UNCHANGED <<provider, messages, userInput, wireBody, contentBlocks, toolResults,
                 idx, nInputs, nRequests, turnRequests, turnStart, atRequest,
                 lastTools, invokeLog, returnLog, lastCall, lastResult>>

\* fetch rejects, or response.json() throws
FetchError ==
  /\ nAnswered' = nAnswered + 1
  /\ pc = "RequestingModel"
  /\ \E m \in FetchErrors : Catch(m)
  /\ lastEvent' = "fetch error"
  /\ UNCHANGED <<provider, messages, userInput, wireBody, contentBlocks, toolResults,
                 idx, nInputs, nRequests, turnRequests, turnStart, atRequest,
                 lastTools, invokeLog, returnLog, lastCall, lastResult>>

\* callApi returns a response that does not decode
DecodeError ==
  /\ nAnswered' = nAnswered + 1
  /\ pc = "RequestingModel"
  /\ \E response \in Responses(provider) : \E d \in Decode(provider, response) :
       ~d.ok /\ Catch(d.message)
  /\ lastEvent' = "decode error"
  /\ UNCHANGED <<provider, messages, userInput, wireBody, contentBlocks, toolResults,
                 idx, nInputs, nRequests, turnRequests, turnStart, atRequest,
                 lastTools, invokeLog, returnLog, lastCall, lastResult>>

\* callApi returns a response and it decodes: the for-of loop starts
ResponseDecoded ==
  /\ nAnswered' = nAnswered + 1
  /\ pc = "RequestingModel"
  /\ \E response \in Responses(provider) : \E d \in Decode(provider, response) :
       /\ d.ok
       /\ ToolUses(d.blocks) # <<>> => nRequests < MaxRequests
       /\ contentBlocks' = d.blocks
  /\ toolResults' = <<>>
  /\ idx' = 1
  /\ pc' = "DispatchingTools"
  /\ lastTools' = Len(ToolUses(contentBlocks'))
  /\ invokeLog' = <<>>
  /\ returnLog' = <<>>
  /\ lastEvent' = "response"
  /\ UNCHANGED <<provider, messages, userInput, wireBody, reported, nInputs, nRequests,
                 turnRequests, turnStart, atRequest, lastCall, lastResult, caught>>

NextBlock_reverse(i) == Len(contentBlocks) + 1 - i

\* the position in contentBlocks the i-th pass of the for-of loop visits
NextBlock(i) == i

\* a text block is printed
ShowText ==
  /\ pc = "DispatchingTools"
  /\ idx <= Len(contentBlocks)
  /\ contentBlocks[NextBlock(idx)].type = "text"
  /\ idx' = idx + 1
  /\ lastEvent' = "text"
  /\ UNCHANGED <<provider, nAnswered, pc, messages, userInput, wireBody, contentBlocks, toolResults,
                 reported, nInputs, nRequests, turnRequests, turnStart, atRequest,
                 lastTools, invokeLog, returnLog, lastCall, lastResult, caught>>

AfterInvoke_noAwait == "DispatchingTools"

\* where the loop is once runTool is called: suspended at the await
AfterInvoke == "InvokingTool"

\* await runTool(toolName, toolArgs) is entered for a tool_use block
InvokeTool ==
  /\ pc = "DispatchingTools"
  /\ idx <= Len(contentBlocks)
  /\ contentBlocks[NextBlock(idx)].type = "tool_use"
  /\ pc' = AfterInvoke
  /\ invokeLog' = Append(invokeLog, NextBlock(idx))
  /\ lastEvent' = "invoke"
  /\ UNCHANGED <<provider, nAnswered, messages, userInput, wireBody, contentBlocks, toolResults, idx,
                 reported, nInputs, nRequests, turnRequests, turnStart, atRequest,
                 lastTools, returnLog, lastCall, lastResult, caught>>

ResultBlock_unknownId(block, result) == ToolResult("unknown", result)

\* the tool_result block pushed for a block and the string runTool returned
ResultBlock(block, result) == ToolResult(block.id, result)

\* runTool returns and its tool_result is pushed
ToolReturns ==
  /\ pc = "InvokingTool"
  /\ \E env \in ScriptedEnvs :
       LET block == contentBlocks[NextBlock(idx)]
           result == runTool(block.name, block.input, env)
       IN /\ lastCall' = [name |-> block.name, args |-> block.input, env |-> env]
          /\ lastResult' = result
          /\ toolResults' = Append(toolResults, ResultBlock(block, result))
  /\ returnLog' = Append(returnLog, NextBlock(idx))
  /\ idx' = idx + 1
  /\ pc' = "DispatchingTools"
  /\ lastEvent' = "return"
  /\ UNCHANGED <<provider, nAnswered, messages, userInput, wireBody, contentBlocks, reported,
                 nInputs, nRequests, turnRequests, turnStart, atRequest,
                 lastTools, invokeLog, caught>>

AssistantMessage_text(blocks) == ArrayMessage("assistant", SelectBlocks(blocks, "text"))

\* { role: 'assistant', content: contentBlocks }
AssistantMessage(blocks) == ArrayMessage("assistant", blocks)

LoopBreaks_always(results) == TRUE

LoopBreaks_atMostOne(results) == Len(results) <= 1

LoopBreaks_never(results) == FALSE

\* if (toolResults.length === 0) break
LoopBreaks(results) == Len(results) = 0

\* the for-of loop is over: the assistant message is pushed, then either the
\* turn is complete or the results are pushed and the model is asked again
FinishDispatch ==
  /\ pc = "DispatchingTools"
  /\ idx > Len(contentBlocks)
  /\ LET withAssistant == Push(messages, AssistantMessage(contentBlocks)) IN
     IF LoopBreaks(toolResults)
     THEN /\ messages' = withAssistant
          /\ pc' = "AwaitingUserInput"
          /\ UNCHANGED <<wireBody, atRequest, nRequests, turnRequests>>
     ELSE /\ messages' = Push(withAssistant, ArrayMessage("user", toolResults))
          /\ IssueRequest(messages')
          /\ turnRequests' = turnRequests + 1
  /\ lastEvent' = "finish"
  /\ UNCHANGED <<provider, nAnswered, userInput, contentBlocks, toolResults, idx, reported, nInputs,
                 turnStart, lastTools, invokeLog, returnLog, lastCall, lastResult, caught>>

Next ==
  \/ EmptyInput
  \/ Quit
  \/ Clear
  \/ UserMessage
  \/ HttpError
  \/ FetchError
  \/ DecodeError
  \/ ResponseDecoded
  \/ ShowText
  \/ InvokeTool
  \/ ToolReturns
  \/ FinishDispatch

Spec == Init /\ [][Next]_vars

\* Every await of the agentic loop resolves: fetch answers or rejects, a
\* tool returns (the shell has a timeout); the code between two awaits runs
\* to the next one.  Nothing makes the user type.
LoopStep ==
  \/ HttpError
  \/ FetchError
  \/ DecodeError
  \/ ResponseDecoded
  \/ ShowText
  \/ InvokeTool
  \/ ToolReturns
  \/ FinishDispatch

FairSpec == Spec /\ WF_vars(LoopStep)

TypeOK ==
  /\ provider \in Providers
  /\ pc \in {"AwaitingUserInput", "RequestingModel", "DispatchingTools", "InvokingTool", "Exited"}
  /\ nInputs \in 0..MaxInputs
  /\ nRequests \in 0..MaxRequests
  /\ nAnswered \in 0..nRequests
  /\ turnRequests \in 0..MaxRequests
  /\ idx \in 1..(Len(contentBlocks) + 1)

----------------------------------------------------------------------------
\* Properties

Last(seq) == seq[Len(seq)]

InDispatch == pc \in {"DispatchingTools", "InvokingTool"}

\* the positions of the tool_use blocks, in the order of the response
RECURSIVE ToolPositions(_, _)
ToolPositions(blocks, from) ==
  IF from > Len(blocks) THEN <<>>
  ELSE (IF blocks[from].type = "tool_use" THEN <<from>> ELSE <<>>)
       \o ToolPositions(blocks, from + 1)

IsPrefix(a, b) == Len(a) <= Len(b) /\ SubSeq(b, 1, Len(a)) = a

\* C1: the user message of tool results pushed when the dispatch of a
\* response ends holds one tool_result per tool_use block of the response,
\* with the ids of those blocks, position by position, and nothing else; a
\* response without tool_use blocks gets no such message.
C1_Correlation ==
  [][(pc = "DispatchingTools" /\ idx > Len(contentBlocks)) =>
       IF ToolUses(contentBlocks) = <<>>
       THEN messages' = Append(messages, ArrayMessage("assistant", contentBlocks))
       ELSE /\ Len(messages') = Len(messages) + 2
            /\ Last(messages').role = "user"
            /\ Last(messages').isArray
            /\ \A i \in 1..Len(Last(messages').content) :
                 Last(messages').content[i].type = "tool_result"
            /\ ToolUseIds(Last(messages').content) = Ids(ToolUses(contentBlocks))]_vars

C1_Witness ==
  /\ lastEvent = "finish"
  /\ pc = "RequestingModel"
  /\ Last(messages).isArray
  /\ ToolUseIds(Last(messages).content) = <<"t1", "t2">>

\* C2: after a response with a tool_use block, each tool_result pushed
\* holds the very string runTool returned under the id of its block, and
\* control does not come back to the prompt from the dispatch: the dispatch
\* ends by pushing the results and issuing one more model request.
C2_ResultThenRequest ==
  [][(InDispatch /\ lastTools > 0) =>
       /\ pc' \in {"DispatchingTools", "InvokingTool", "RequestingModel"}
       /\ (pc = "InvokingTool" =>
             toolResults' = Append(toolResults,
                                   ToolResult(contentBlocks[idx].id, lastResult')))
       /\ (pc' = "RequestingModel" =>
             /\ nRequests' = nRequests + 1
             /\ Last(messages') = ArrayMessage("user", toolResults)
             /\ atRequest' = messages')]_vars

C2_Witness ==
  /\ lastEvent = "finish"
  /\ pc = "RequestingModel"
  /\ turnRequests = 2
  /\ Last(messages).isArray
  /\ Last(messages).content = <<ToolResult("t1", <<"a.ts", "\n", "b.ts">>)>>

\* C3: when the first response to a user input has no tool_use block, the
\* dispatch issues no model request and ends at the prompt with the history
\* being the history before the input, the user message and the assistant
\* message, so the input cost exactly one request.
C3_OneRequest ==
  [][(pc = "DispatchingTools" /\ turnRequests = 1 /\ lastTools = 0) =>
       /\ nRequests' = nRequests
       /\ turnRequests' = 1
       /\ pc' \in {"DispatchingTools", "AwaitingUserInput"}
       /\ (idx > Len(contentBlocks) =>
             /\ pc' = "AwaitingUserInput"
             /\ messages' = turnStart \o <<TextMessage("user", userInput),
                                          ArrayMessage("assistant", contentBlocks)>>)]_vars

C3_Witness ==
  /\ lastEvent = "finish"
  /\ pc = "AwaitingUserInput"
  /\ turnRequests = 1
  /\ lastTools = 0
  /\ contentBlocks # <<>>
  /\ Len(messages) = Len(turnStart) + 2

HasUnknownTool(blocks) ==
  \E i \in 1..Len(blocks) : blocks[i].type = "tool_use" /\ blocks[i].name \notin TOOLS

\* C4: the result of a tool_use block naming a tool that is not registered
\* starts with `error:`, nothing is reported and the turn is not aborted:
\* the dispatch of that response goes on and ends with the results pushed,
\* the error result among them, and a new model request.
C4_UnknownTool ==
  [][(InDispatch /\ HasUnknownTool(contentBlocks)) =>
       /\ pc' \in {"DispatchingTools", "InvokingTool", "RequestingModel"}
       /\ reported' = reported
       /\ caught' = caught
       /\ (pc = "InvokingTool" /\ contentBlocks[idx].name \notin TOOLS =>
             /\ IsErrorResult(Last(toolResults').content)
             /\ Last(toolResults').tool_use_id = contentBlocks[idx].id)
       /\ (pc' = "RequestingModel" =>
             /\ nRequests' = nRequests + 1
             /\ \E i \in 1..Len(Last(messages').content) :
                  IsErrorResult(Last(messages').content[i].content))]_vars

C4_Witness ==
  /\ lastEvent = "finish"
  /\ pc = "RequestingModel"
  /\ HasUnknownTool(contentBlocks)
  /\ IsErrorResult(Last(messages).content[1].content)

\* C5 (as claimed): when callApi throws for a status that is not ok, the
\* error is reported, control is back at the prompt and the history is the
\* one the request was issued with; for the first request of a user turn
\* that is the earlier history and the user's message.
C5_Original ==
  [][(pc = "RequestingModel" /\ lastEvent' = "http error") =>
       /\ pc' = "AwaitingUserInput"
       /\ reported' = caught'
       /\ messages' = atRequest
       /\ (turnRequests = 1 =>
             messages' = Append(turnStart, TextMessage("user", userInput)))]_vars

ErrorEvents == {"http error", "fetch error", "decode error"}

\* C6 (as claimed): after a transport or decode error, whatever its
\* message, the loop is back at the prompt; the process has not ended.
C6_Original == lastEvent \in ErrorEvents => pc = "AwaitingUserInput"

Failed(call) ==
  \/ HandlerThrows(call.name, call.args, call.env)
  \/ NonZeroExit(call.name, call.args, call.env)

\* C7 (as claimed): whenever an invocation failed, by a handler that threw
\* or a shell command that exited non-zero, the string returned starts with
\* `error:`.
C7_Original == lastEvent = "return" => (Failed(lastCall) => IsErrorResult(lastResult))

\* C7 (amended): runTool hands a string back to the dispatch for every name
\* and argument map; it is `error: ` and the message when the handler threw
\* or the name is not registered, and the handler's own return value in
\* every other case, a shell command that exited non-zero included.
C7_NeverThrows ==
  lastEvent = "return" =>
    /\ pc = "DispatchingTools"
    /\ Last(toolResults).content = lastResult
    /\ LET r == ToolFn(lastCall.name, lastCall.args, lastCall.env) IN
       IF r.throws
       THEN lastResult = <<"error: ">> \o r.value /\ IsErrorResult(lastResult)
       ELSE lastResult = r.value

C7_Witness ==
  /\ lastEvent = "return"
  /\ lastCall.name = "grep"
  /\ HandlerThrows(lastCall.name, lastCall.args, lastCall.env)
  /\ IsErrorResult(lastResult)

\* C8: reading `/c` empties the history whatever it held, leaves an empty
\* history as it is, stays at the prompt and issues no model request.
C8_Clear ==
  [][(nInputs' = nInputs + 1 /\ userInput' = "/c") =>
       /\ messages' = <<>>
       /\ (messages = <<>> => messages' = messages)
       /\ pc' = "AwaitingUserInput"
       /\ nRequests' = nRequests
       /\ wireBody' = wireBody]_vars

C8_Witness ==
  /\ lastEvent = "clear"
  /\ turnStart # <<>>
  /\ messages = <<>>

\* the wire shape an assistant message has in the last request body, read
\* as the response of the provider
AsResponse(i) ==
  IF IsContentBlockFamily(provider)
  THEN ContentBlockResponse(TRUE, wireBody.messages[i].content)
  ELSE ChatResponse(<<Choice(wireBody.messages[i + 1])>>)

\* C9: every assistant message of the history a request was issued with
\* decodes, from the wire shape it has in that request's body, to its own
\* content blocks: same text, same tool_use ids, names and inputs, in the
\* same order.
C9_RoundTrip ==
  \A i \in 1..Len(atRequest) :
    atRequest[i].role = "assistant" =>
      Decode(provider, AsResponse(i)) = {Decoded(atRequest[i].content)}

C9_Witness ==
  /\ provider = "groq"
  /\ pc = "RequestingModel"
  /\ \E i \in 1..Len(atRequest) :
       /\ atRequest[i].role = "assistant"
       /\ Len(ToolUses(atRequest[i].content)) = 2
       /\ Len(SelectBlocks(atRequest[i].content, "text")) = 1
       /\ \E j \in 1..Len(atRequest[i].content) : Len(atRequest[i].content[j].input) > 1

\* C10: the tools of a response are started in the order of their tool_use
\* blocks, each one only when the one before has returned, and the
\* tool_result blocks are pushed in that order.
C10_InOrder ==
  LET positions == ToolPositions(contentBlocks, 1) IN
  /\ IsPrefix(invokeLog, positions)
  /\ IsPrefix(returnLog, invokeLog)
  /\ Len(invokeLog) = Len(returnLog) + (IF pc = "InvokingTool" THEN 1 ELSE 0)
  /\ Len(toolResults) = Len(returnLog)
  /\ \A k \in 1..Len(toolResults) :
       toolResults[k].tool_use_id = contentBlocks[returnLog[k]].id

C10_Witness ==
  /\ pc = "InvokingTool"
  /\ Len(invokeLog) = 2
  /\ Len(returnLog) = 1
  /\ Len(toolResults) = 1

Commands == {"", "/q", "exit", "/c"}

\* C11: a failed model request is followed by no request of the loop's own:
\* the step that catches the error issues none and leaves the agentic loop,
\* and any request issued from the prompt is issued by reading a new line
\* that is neither empty nor a command.
C11_NoRetry ==
  [][/\ (lastEvent' \in ErrorEvents /\ pc = "RequestingModel" =>
           nRequests' = nRequests /\ pc' \in {"AwaitingUserInput", "Exited"})
     /\ (nRequests' # nRequests /\ pc \notin {"DispatchingTools"} =>
           /\ pc = "AwaitingUserInput"
           /\ nInputs' = nInputs + 1
           /\ userInput' \notin Commands
           /\ nRequests' = nRequests + 1)]_vars

C11_Witness ==
  /\ lastEvent = "user"
  /\ pc = "RequestingModel"
  /\ caught # <<>>
  /\ reported = caught
  /\ nRequests = 2

\* C12: every step but the reading of `/c` leaves the history it found as a
\* prefix of the history it leaves, on the error paths too.
C12_AppendOnly ==
  [][~(nInputs' = nInputs + 1 /\ userInput' = "/c") => IsPrefix(messages, messages')]_vars

C12_Witness ==
  /\ lastEvent \in ErrorEvents
  /\ pc = "AwaitingUserInput"
  /\ Len(messages) = 3
  /\ messages = atRequest
  /\ Last(messages).isArray

\* C13: the loop comes back to the prompt from a turn only by an error or
\* by finishing the dispatch of a response without tool_use blocks, after
\* any number of tool rounds; and, every await resolving, a turn whose
\* request is out comes back to the prompt unless an error ends it, and
\* does come back once a response without tool_use blocks is in hand.
C13_TurnCompletion ==
  /\ [][(pc # "AwaitingUserInput" /\ pc' = "AwaitingUserInput") =>
          \/ lastEvent' \in ErrorEvents
          \/ pc = "DispatchingTools" /\ lastTools = 0 /\ idx > Len(contentBlocks)]_vars
  /\ ((pc = "DispatchingTools" /\ lastTools = 0) ~> pc = "AwaitingUserInput")
  /\ (pc = "RequestingModel" ~> (pc = "AwaitingUserInput" \/ lastEvent \in ErrorEvents))

C13_Witness ==
  /\ lastEvent = "finish"
  /\ pc = "AwaitingUserInput"
  /\ turnRequests > 1
  /\ lastTools = 0
  /\ Len(messages) = Len(turnStart) + 4

\* C14 (as claimed): while a tool of a response is being invoked, the
\* assistant message holding the blocks of that response is already the
\* last message of the history.
C14_Original ==
  pc = "InvokingTool" =>
    messages # <<>> /\ Last(messages) = ArrayMessage("assistant", contentBlocks)

\* C14 (amended): during the whole dispatch of a response the history is
\* still the one the request was issued with; the assistant message holding
\* all blocks of the response is pushed when the loop over the blocks is
\* over, after every tool_use block of it was invoked and has returned.
C14_AssistantAfterDispatch ==
  /\ [](InDispatch => messages = atRequest)
  /\ [][(pc = "DispatchingTools" /\ idx > Len(contentBlocks)) =>
          /\ Len(returnLog) = lastTools
          /\ Len(messages') > Len(messages)
          /\ messages'[Len(messages) + 1] = ArrayMessage("assistant", contentBlocks)]_vars

C14_Witness ==
  /\ pc = "InvokingTool"
  /\ Len(returnLog) = 1
  /\ messages = atRequest
  /\ Last(messages).role = "user"
  /\ contentBlocks[1].type = "text"

IsChatBody == wireBody.family = "chat"

\* C15 (as claimed): in a request body of the chat family every id in the
\* tool_calls of an assistant message is the tool_call_id of a `tool`
\* message further down the body.
C15_Original ==
  IsChatBody =>
    \A i \in 1..Len(wireBody.messages) :
      (wireBody.messages[i].role = "assistant" /\ wireBody.messages[i].hasToolCalls) =>
        \A k \in 1..Len(wireBody.messages[i].tool_calls) :
          \E j \in (i + 1)..Len(wireBody.messages) :
            /\ wireBody.messages[j].role = "tool"
            /\ wireBody.messages[j].tool_call_id = wireBody.messages[i].tool_calls[k].id

\* C16: a request body of the chat family starts with the system prompt
\* and then holds one chat message per message of the history, in order: a
\* `tool` message under the tool_use_id of the first block for a user
\* message that is an array of tool results, however many it holds, and a
\* `user` message with the text for a user message that is a string.
C16_ToolResultEncoding ==
  IsChatBody =>
    /\ Len(wireBody.messages) = Len(atRequest) + 1
    /\ wireBody.messages[1] = ChatMessage("system", <<systemPrompt>>, FALSE, <<>>, "")
    /\ \A i \in 1..Len(atRequest) :
         atRequest[i].role = "user" =>
           IF atRequest[i].isArray
           THEN /\ wireBody.messages[i + 1].role = "tool"
                /\ wireBody.messages[i + 1].tool_call_id = atRequest[i].content[1].tool_use_id
                /\ ~wireBody.messages[i + 1].hasToolCalls
           ELSE wireBody.messages[i + 1] =
                  ChatMessage("user", <<atRequest[i].text>>, FALSE, <<>>, "")

C16_Witness ==
  /\ IsChatBody
  /\ pc = "RequestingModel"
  /\ Len(atRequest) = 3
  /\ Len(atRequest[3].content) = 2
  /\ wireBody.messages[4].role = "tool"
  /\ wireBody.messages[4].tool_call_id = "t1"

\* C17 (as claimed): when a tool-call payload of a response does not parse,
\* the error is reported and the loop is back at the prompt, no tool of the
\* response was invoked and the history is as it was.
C17_Original ==
  [][(pc = "RequestingModel" /\ lastEvent' = "decode error") =>
       /\ pc' = "AwaitingUserInput"
       /\ reported' = caught'
       /\ messages' = messages
       /\ invokeLog' = invokeLog
       /\ returnLog' = returnLog
       /\ toolResults' = toolResults]_vars

\* what is outstanding: the read of a line, model requests, tool calls
WaitingForInput == IF pc = "AwaitingUserInput" THEN 1 ELSE 0
RequestsInFlight == nRequests - nAnswered
ToolsInFlight == Len(invokeLog) - Len(returnLog)

\* C18: at most one of the read of a line, a model request and a tool
\* invocation is outstanding, and where the loop is suspended tells which.
C18_SingleThread ==
  /\ WaitingForInput + RequestsInFlight + ToolsInFlight <= 1
  /\ RequestsInFlight = (IF pc = "RequestingModel" THEN 1 ELSE 0)
  /\ ToolsInFlight = (IF pc = "InvokingTool" THEN 1 ELSE 0)

C18_Witness ==
  /\ pc = "InvokingTool"
  /\ ToolsInFlight = 1
  /\ RequestsInFlight = 0
  /\ nAnswered = 1
  /\ Len(invokeLog) = 2

\* C19: whenever a model request is issued the history it is issued with
\* is not empty and ends with a user message, a line of the user or an
\* array of tool results, after a failed turn and after a clear too.
C19_LastIsUser ==
  [][nRequests' # nRequests =>
       /\ atRequest' = messages'
       /\ messages' # <<>>
       /\ Last(messages').role = "user"
       /\ (pc = "AwaitingUserInput" => Last(messages') = TextMessage("user", userInput'))
       /\ (pc = "DispatchingTools" => Last(messages') = ArrayMessage("user", toolResults))]_vars

C19_Witness ==
  /\ lastEvent = "user"
  /\ pc = "RequestingModel"
  /\ nRequests = 2
  /\ Len(atRequest) = 1
  /\ turnStart = <<>>

IsResultArray(m) == m.role = "user" /\ m.isArray
HasToolUse(m) == m.role = "assistant" /\ m.isArray /\ ToolUses(m.content) # <<>>

\* C20: in every state, a user message that is an array is not empty, holds
\* tool_result blocks only and comes right after an assistant message whose
\* tool_use ids, in order, are its tool_use_ids; and an assistant message
\* with a tool_use block is followed at once by such a user message.
C20_WellFormed ==
  \A i \in 1..Len(messages) :
    /\ IsResultArray(messages[i]) =>
         /\ messages[i].content # <<>>
         /\ \A k \in 1..Len(messages[i].content) : messages[i].content[k].type = "tool_result"
         /\ i > 1
         /\ messages[i - 1].role = "assistant"
         /\ Ids(ToolUses(messages[i - 1].content)) = ToolUseIds(messages[i].content)
    /\ HasToolUse(messages[i]) =>
         /\ i < Len(messages)
         /\ IsResultArray(messages[i + 1])

C20_Witness ==
  /\ pc = "AwaitingUserInput"
  /\ lastEvent = "finish"
  /\ Len(messages) = 4
  /\ HasToolUse(messages[2])
  /\ Len(messages[3].content) = 2

====
